---- MODULE Spec2Model ----
(***************************************************************************)
(* Model of the queue client of xray-iot (libs/common/src/rmq/             *)
(* rmq.service.ts, class RmqService) together with the broker it talks to. *)
(*                                                                         *)
(* The client's fields are isConnected, reconnectAttempts, connection and  *)
(* channel.  Every activation of connect()/handleReconnect() is a task     *)
(* that is suspended at one of the awaits of the connect sequence or in    *)
(* the backoff timer.  The broker side (connections, channels, queues,     *)
(* deliveries) is the environment: it may refuse a connect, fail a step    *)
(* of the sequence, emit 'error' and 'close' on a connection, and deliver  *)
(* messages to registered consumers.                                       *)
(***************************************************************************)
EXTENDS Integers, Sequences, FiniteSets, TLC

\* ---------------------------------------------------------------- bounds
\* number of events injected from outside in one run: faults (refused
\* connects, failed steps of the connect sequence or of the shutdown, 'error'
\* and 'close' events), messages published to the broker, and the shutdown;
\* also the number of messages of a run
MaxEvents == 2

\* number of faults, the shutdown included, in a run in which MaxEvents
\* messages are published
MaxFaults == 1

\* each fault starts at most two further connect attempts (the failing task
\* retries and the close listener starts a task of its own)
MaxConn == 2 * MaxEvents + 2
\* number of activations of connect()/handleReconnect() alive at a time
MaxTasks == 2

ConnIds == 1 .. MaxConn
TaskIds == 1 .. MaxTasks
MsgIds == 1 .. MaxEvents

\* number of messages the ingestion handler takes in one run
MaxIngest == 2
\* the most failed connects behind the client when the backoff is observed
MaxAttempts == 6
\* Math.random() returns one of the fractions k / RandomSteps, k < RandomSteps
RandomSteps == 65536

\* ------------------------------------------------------ program constants
\* rmq.service.ts:25  queues = ['xray_data_queue', 'xray_queue']
queues == << "xray_data_queue", "xray_queue" >>
\* rmq.service.ts:28
maxReconnectDelay == 30000

\* rmq.service.ts:60  channel.prefetch(1)
PrefetchCount == 1

QueueNames == { queues[i] : i \in 1 .. Len(queues) }
\* the queue the callers of this repository publish to and consume from
\* (producer.module.ts:128, main.ts:83)
UsedQueues == { "xray_queue" }

\* ------------------------------------------------------------------ JSON
\* Payloads the callers hand to sendToQueue, and the byte strings found on
\* the wire.  Bytes are sequences of tokens; JSONparse accepts exactly the
\* well-formed ones.
Payloads == { "emptyObject" }
ForeignBytes == { << "{" >>, << "1" >> }

SendOptions_Transient == [persistent |-> FALSE]

\* rmq.service.ts:108: the options of channel.sendToQueue
SendOptions == [persistent |-> TRUE]

\* the options another publisher's messages carry
ForeignOptions == [persistent |-> FALSE]

\* a message as the broker holds it
Published(body, options) == [body |-> body, persistent |-> options.persistent]

JSONstringify(v) ==
  IF v = "emptyObject" THEN << "{", "}" >>
  ELSE IF v = "sample" THEN << "{", "sample", "}" >>
  ELSE << "1" >>

JSONparse(b) ==
  IF b = << "{", "}" >> THEN [ok |-> TRUE, value |-> "emptyObject"]
  ELSE IF b = << "{", "sample", "}" >> THEN [ok |-> TRUE, value |-> "sample"]
  ELSE IF b = << "1" >> THEN [ok |-> TRUE, value |-> "one"]
  ELSE [ok |-> FALSE, value |-> "SyntaxError"]

VARIABLES
  isConnected,        \* RmqService.isConnected
  reconnectAttempts,  \* RmqService.reconnectAttempts
  connection,         \* RmqService.connection (0 = undefined)
  channel,            \* RmqService.channel (0 = undefined)
  tasks,              \* activations of connect()/handleReconnect()
  conns,              \* broker: state of every connection handed out
  chans,              \* broker: the channel of every connection
  events,             \* events injected so far
  destroy,            \* the activation of onModuleDestroy()
  queue,              \* broker: ready messages of every queue
  content,            \* broker: bytes of every published message
  deliv,              \* one record per (message, channel) delivery
  subscribed,         \* queues for which consume() registered a consumer
  ret,                \* outcome of the public call made in the last step
  xray,               \* the invocation of the XrayConsumer handler under way
  ingested,           \* one record per message the XrayConsumer handler took
  store,              \* the documents saved through SignalService
  batch,              \* the activation of ProducerService.sendBatch()
  sample              \* the last call of ProducerService.generateSample()

vars == << isConnected, reconnectAttempts, connection, channel, tasks, conns,
           chans, events, queue, content, deliv, subscribed, ret,
           destroy, xray, ingested, store, batch, sample >>

clientVars == << isConnected, reconnectAttempts, connection, channel, tasks >>
brokerVars == << conns, chans, queue, content, deliv >>
ingestVars == << xray, ingested, store >>
producerVars == << batch, sample >>
appVars == << ingestVars, producerVars >>
rmqVars == << clientVars, brokerVars, events, subscribed, ret, destroy >>

IdleTask == [pc |-> "idle", conn |-> 0, target |-> 0, i |-> 0, delay |-> 0]
NoChan == [state |-> "none", prefetch |-> 0, asserted |-> {}, consumers |-> {}]
ClosedChan == [NoChan EXCEPT !.state = "closed"]
NoDeliv == [pc |-> "none", q |-> "", handled |-> 0, hres |-> "none",
            ops |-> << >>, settle |-> "none"]
NoRet == "none"
NoDestroy == [pc |-> "none", target |-> 0, res |-> "none"]
NoXray == [pc |-> "idle"]
NoBatch == [pc |-> "idle", count |-> 0, i |-> 0, published |-> 0,
            error |-> "none"]
NoSample == [pc |-> "none"]

Min(a, b) == IF a < b THEN a ELSE b

RECURSIVE Pow2(_)
Pow2(n) == IF n = 0 THEN 1 ELSE 2 * Pow2(n - 1)

ChannelOpen(c) == c # 0 /\ chans[c].state = "open"

Init ==
  /\ isConnected = FALSE
  /\ reconnectAttempts = 0
  /\ connection = 0
  /\ channel = 0
  \* onModuleInit has called connect(): amqp.connect is pending
  /\ tasks = [t \in TaskIds |->
                IF t = 1 THEN [IdleTask EXCEPT !.pc = "connect"] ELSE IdleTask]
  /\ conns = [c \in ConnIds |-> "none"]
  /\ chans = [c \in ConnIds |-> NoChan]
  /\ events = 0
  /\ queue = [q \in QueueNames |-> << >>]
  /\ content = << >>
  /\ deliv = [k \in MsgIds \X ConnIds |-> NoDeliv]
  /\ subscribed = {}
  /\ ret = NoRet
  /\ destroy = NoDestroy
  /\ xray = NoXray
  /\ ingested = << >>
  /\ store = << >>
  /\ batch = NoBatch
  /\ sample = NoSample

\* ------------------------------------------------- reconnection supervisor
BackoffDelay_Uncapped(attempts) == Pow2(attempts) * 1000

\* rmq.service.ts:85-88
BackoffDelay(attempts) ==
  Min(maxReconnectDelay, Pow2(attempts) * 1000)

\* the lowest free task slot
FreeTask == CHOOSE t \in TaskIds :
              /\ tasks[t].pc = "idle"
              /\ \A u \in TaskIds : u < t => tasks[u].pc # "idle"

HandleReconnect_GivesUp(t) ==
  /\ isConnected' = FALSE
  /\ reconnectAttempts' = reconnectAttempts + 1
  /\ tasks' = [tasks EXCEPT ![t] =
                 IF reconnectAttempts >= 1 THEN IdleTask
                 ELSE [IdleTask EXCEPT !.pc = "backoff",
                                       !.delay = BackoffDelay(reconnectAttempts + 1)]]

\* handleReconnect() up to its await of the backoff timer, run by task t
HandleReconnect(t) ==
  /\ isConnected' = FALSE
  /\ reconnectAttempts' = reconnectAttempts + 1
  /\ tasks' = [tasks EXCEPT ![t] =
                 [IdleTask EXCEPT !.pc = "backoff",
                                  !.delay = BackoffDelay(reconnectAttempts + 1)]]

\* the backoff timer of task t fires: handleReconnect() calls connect(),
\* which calls amqp.connect
TimerFire(t) ==
  /\ tasks[t].pc = "backoff"
  /\ tasks' = [tasks EXCEPT ![t] = [IdleTask EXCEPT !.pc = "connect"]]
  /\ ret' = NoRet
  /\ UNCHANGED << isConnected, reconnectAttempts, connection, channel,
                  brokerVars, events, subscribed, destroy >>
  /\ UNCHANGED appVars

\* the faults and the shutdown among the events so far; the other events are
\* the messages published
Injected == events - Len(content)

\* f faults and m messages make a run that is explored
WithinBudget(f, m) ==
  \/ f + m <= MaxEvents
  \/ f <= MaxFaults /\ m <= MaxEvents

\* the environment injects one more fault, or the shutdown
Event ==
  /\ WithinBudget(Injected + 1, Len(content))
  /\ events' = events + 1
Fault == Event

\* one more message is published
PublishEvent ==
  /\ WithinBudget(Injected, Len(content) + 1)
  /\ events' = events + 1

\* ------------------------------------------------------- connect sequence
\* The identity of a connection that is closed and that nothing refers to any
\* more is free to name the next connection.
Referenced(c) ==
  \/ connection = c
  \/ channel = c
  \/ \E t \in TaskIds : tasks[t].conn = c \/ tasks[t].target = c
  \/ \E m \in MsgIds : deliv[<< m, c >>].pc # "none"
  \/ destroy.target = c

FreeConn(c) == conns[c] # "open" /\ ~Referenced(c)

NewConn == CHOOSE c \in ConnIds :
             /\ FreeConn(c)
             /\ \A d \in ConnIds : d < c => ~FreeConn(d)

\* amqp.connect resolves: the connection is stored, both listeners are
\* registered and createChannel is called on it
ConnectResolve(t) ==
  /\ tasks[t].pc = "connect"
  /\ \E c \in ConnIds : FreeConn(c)
  /\ conns' = [conns EXCEPT ![NewConn] = "open"]
  /\ connection' = NewConn
  /\ tasks' = [tasks EXCEPT ![t].pc = "createChannel", ![t].conn = NewConn]
  /\ ret' = NoRet
  /\ UNCHANGED << isConnected, reconnectAttempts, channel, chans, queue,
                  content, deliv, events, subscribed, destroy >>
  /\ UNCHANGED appVars

ConnectFailed_Rethrows(t) ==
  /\ tasks' = [tasks EXCEPT ![t] = IdleTask]
  /\ UNCHANGED << isConnected, reconnectAttempts >>

\* rmq.service.ts:70-75: the catch block of connect() logs the error and
\* awaits handleReconnect()
ConnectFailed(t) == HandleReconnect(t)

\* amqp.connect rejects
ConnectReject(t) ==
  /\ tasks[t].pc = "connect"
  /\ Fault
  /\ ConnectFailed(t)
  /\ ret' = NoRet
  /\ UNCHANGED << connection, channel, brokerVars, subscribed, destroy >>
  /\ UNCHANGED appVars

\* createChannel resolves: the channel is stored and prefetch(1) is called
\* on it
CreateChannelResolve(t) ==
  /\ tasks[t].pc = "createChannel"
  /\ conns[tasks[t].conn] = "open"
  /\ chans' = [chans EXCEPT ![tasks[t].conn] = [NoChan EXCEPT !.state = "open"]]
  /\ channel' = tasks[t].conn
  /\ tasks' = [tasks EXCEPT ![t].pc = "prefetch", ![t].conn = 0,
                            ![t].target = tasks[t].conn]
  /\ ret' = NoRet
  /\ UNCHANGED << isConnected, reconnectAttempts, connection, conns, queue,
                  content, deliv, events, subscribed, destroy >>
  /\ UNCHANGED appVars

PrefetchSet_Skipped(ch) == ch

\* rmq.service.ts:60: the effect of channel.prefetch(1) on the channel
PrefetchSet(ch) == [ch EXCEPT !.prefetch = PrefetchCount]

\* prefetch resolves: the first queue is asserted on this.channel, read now
PrefetchResolve(t) ==
  /\ tasks[t].pc = "prefetch"
  /\ ChannelOpen(tasks[t].target)
  /\ chans' = [chans EXCEPT ![tasks[t].target] = PrefetchSet(@)]
  /\ tasks' = [tasks EXCEPT ![t].pc = "assert", ![t].i = 1,
                            ![t].target = channel]
  /\ ret' = NoRet
  /\ UNCHANGED << isConnected, reconnectAttempts, connection, channel, conns,
                  queue, content, deliv, events, subscribed, destroy >>
  /\ UNCHANGED appVars

ConnectSucceeded_NoReset(t) ==
  /\ isConnected' = TRUE
  /\ tasks' = [tasks EXCEPT ![t] = IdleTask]
  /\ UNCHANGED reconnectAttempts

\* the end of a connect sequence that succeeded (rmq.service.ts:67-68)
ConnectSucceeded(t) ==
  /\ isConnected' = TRUE
  /\ reconnectAttempts' = 0
  /\ tasks' = [tasks EXCEPT ![t] = IdleTask]

\* assertQueue(queues[i]) resolves: the next queue is asserted on
\* this.channel, read now; after the last one the client is connected
AssertResolve(t) ==
  /\ tasks[t].pc = "assert"
  /\ ChannelOpen(tasks[t].target)
  /\ chans' = [chans EXCEPT ![tasks[t].target].asserted =
                              @ \cup {queues[tasks[t].i]}]
  /\ IF tasks[t].i < Len(queues)
       THEN /\ tasks' = [tasks EXCEPT ![t].i = @ + 1, ![t].target = channel]
            /\ UNCHANGED << isConnected, reconnectAttempts >>
       ELSE ConnectSucceeded(t)
  /\ ret' = NoRet
  /\ UNCHANGED << connection, channel, conns, queue, content, deliv, events,
                  subscribed, destroy >>
  /\ UNCHANGED appVars

\* createChannel, prefetch or assertQueue rejects, because the connection or
\* channel it was called on is closed or because the broker refuses: the
\* catch block calls handleReconnect
StepReject(t) ==
  /\ tasks[t].pc \in {"createChannel", "prefetch", "assert"}
  /\ \/ /\ IF tasks[t].pc = "createChannel"
             THEN conns[tasks[t].conn] # "open"
             ELSE ~ChannelOpen(tasks[t].target)
        /\ UNCHANGED events
     \/ Fault
  /\ ConnectFailed(t)
  /\ ret' = NoRet
  /\ UNCHANGED << connection, channel, brokerVars, subscribed, destroy >>
  /\ UNCHANGED appVars

\* ------------------------------------------------------ connection events
RECURSIVE SortedSeq(_)
SortedSeq(S) ==
  IF S = {} THEN << >>
  ELSE LET m == CHOOSE x \in S : \A y \in S : x <= y
       IN << m >> \o SortedSeq(S \ {m})

\* the messages delivered on channel c from queue q that the broker still
\* holds as unacknowledged
Unacked(c, q) ==
  { m \in MsgIds : deliv[<< m, c >>].settle = "unacked" /\ deliv[<< m, c >>].q = q }

\* the broker's side of a channel going away: its consumers are gone and its
\* unacknowledged messages return to the head of their queues
ChannelGone(c) ==
  /\ chans' = [chans EXCEPT ![c] =
                 IF @.state = "open" THEN ClosedChan ELSE @]
  /\ queue' = [q \in QueueNames |-> SortedSeq(Unacked(c, q)) \o queue[q]]
  /\ deliv' = [k \in MsgIds \X ConnIds |->
                 IF k[2] = c /\ deliv[k].settle = "unacked"
                   THEN [deliv[k] EXCEPT !.settle = "requeued"]
                   ELSE deliv[k]]

OnError_Reconnects ==
  IF \E t \in TaskIds : tasks[t].pc = "idle"
    THEN HandleReconnect(FreeTask)
    ELSE isConnected' = FALSE /\ UNCHANGED << reconnectAttempts, tasks >>

\* the 'error' listener (rmq.service.ts:50-53)
OnError ==
  /\ isConnected' = FALSE
  /\ UNCHANGED << reconnectAttempts, tasks >>

OnClose_OnlyDisconnects ==
  isConnected' = FALSE /\ UNCHANGED << reconnectAttempts, tasks >>

\* the 'close' listener (rmq.service.ts:55-57): handleReconnect runs as a
\* task of its own
OnClose ==
  HandleReconnect(FreeTask)

\* connection c emits 'error'
ConnError(c) ==
  /\ conns[c] = "open"
  /\ Fault
  /\ OnError
  /\ ret' = NoRet
  /\ UNCHANGED << connection, channel, brokerVars, subscribed, destroy >>
  /\ UNCHANGED appVars

\* connection c is lost and emits 'close'
ConnClose(c) ==
  /\ conns[c] = "open"
  /\ \E t \in TaskIds : tasks[t].pc = "idle"
  /\ Fault
  /\ conns' = [conns EXCEPT ![c] = "closed"]
  /\ ChannelGone(c)
  /\ OnClose
  /\ ret' = NoRet
  /\ UNCHANGED << connection, channel, content, subscribed, destroy >>
  /\ UNCHANGED appVars

\* ------------------------------------------------------------- public API
NotConnected_FlagIgnored ==
  channel = 0

\* the guard of sendToQueue and consume (rmq.service.ts:100 and 123)
NotConnected ==
  ~isConnected \/ channel = 0

\* sendToQueue(q, data) (rmq.service.ts:99-117)
sendToQueue(q, data) ==
  IF NotConnected
    THEN /\ ret' = "NotConnected"
         /\ UNCHANGED << clientVars, brokerVars, events, subscribed, destroy >>
    ELSE IF ChannelOpen(channel)
      THEN /\ PublishEvent
           /\ content' = Append(content, Published(JSONstringify(data), SendOptions))
           /\ queue' = [queue EXCEPT ![q] = Append(@, Len(content) + 1)]
           /\ ret' = "ok"
           /\ UNCHANGED << clientVars, conns, chans, deliv, subscribed, destroy >>
      ELSE \* channel.sendToQueue throws on a closed channel; the error is
           \* logged and thrown again
           /\ ret' = "SendFailed"
           /\ UNCHANGED << clientVars, brokerVars, events, subscribed, destroy >>

\* a caller other than the producer calls sendToQueue(q, data)
SendToQueue(q, data) ==
  /\ sendToQueue(q, data)
  /\ UNCHANGED appVars

\* consume(q, callback)
Consume(q) ==
  /\ UNCHANGED appVars
  /\ IF NotConnected
       THEN /\ ret' = "NotConnected"
            /\ UNCHANGED << clientVars, brokerVars, events, subscribed, destroy >>
       ELSE IF ChannelOpen(channel)
         THEN /\ q \notin chans[channel].consumers
              /\ chans' = [chans EXCEPT ![channel].consumers = @ \cup {q}]
              /\ subscribed' = subscribed \cup {q}
              /\ ret' = "ok"
              /\ UNCHANGED << clientVars, conns, queue, content, deliv, events,
                              destroy >>
         ELSE \* channel.consume on a closed channel registers nothing; the
              \* failure is either thrown at once or a discarded rejection
              /\ \E r \in {"ok", "ConsumeFailed"} :
                   ret' = r
              /\ UNCHANGED << clientVars, brokerVars, events, subscribed, destroy >>

\* another publisher puts bytes b on queue q
ForeignPublish(q, b) ==
  /\ PublishEvent
  /\ content' = Append(content, Published(b, ForeignOptions))
  /\ queue' = [queue EXCEPT ![q] = Append(@, Len(content) + 1)]
  /\ ret' = NoRet
  /\ UNCHANGED << clientVars, conns, chans, deliv, subscribed, destroy >>
  /\ UNCHANGED appVars

\* --------------------------------------------------------- consumer callback
\* a call of this.channel.ack / this.channel.nack; amqplib throws when the
\* channel is closed
ChannelCall(op, on, requeue) ==
  [op |-> op, on |-> on, requeue |-> requeue, threw |-> ~ChannelOpen(on)]

AfterSuccess_Rejects ==
  << ChannelCall("nack", channel, FALSE) >>

\* rmq.service.ts:136-140: ack inside the try block, nack in its catch block
AfterSuccess ==
  LET a == ChannelCall("ack", channel, FALSE)
  IN IF a.threw THEN << a, ChannelCall("nack", channel, FALSE) >> ELSE << a >>

AfterFailure_Requeues ==
  << ChannelCall("nack", channel, TRUE) >>

AfterFailure_Acks ==
  << ChannelCall("ack", channel, FALSE) >>

\* rmq.service.ts:137-140: the catch block
AfterFailure ==
  << ChannelCall("nack", channel, FALSE) >>

\* what the broker makes of the calls for a message delivered on channel c:
\* only a call that reaches the delivering channel settles the message
Settled(c, ops, before) ==
  IF \E i \in 1 .. Len(ops) : ~ops[i].threw /\ ops[i].on = c
    THEN LET i == CHOOSE j \in 1 .. Len(ops) :
                    /\ ~ops[j].threw /\ ops[j].on = c
                    /\ \A k \in 1 .. j - 1 : ops[k].threw \/ ops[k].on # c
         IN IF ops[i].op = "ack" THEN "acked"
            ELSE IF ops[i].requeue THEN "requeued" ELSE "nacked"
    ELSE before

\* the broker delivers the head of queue q to the consumer on channel c; the
\* callback parses it and either starts the handler or rejects the message
Deliver(q, c) ==
  /\ ChannelOpen(c)
  /\ q \in chans[c].consumers
  /\ queue[q] # << >>
  /\ chans[c].prefetch = 0 \/ Cardinality(Unacked(c, q)) < chans[c].prefetch
  /\ LET m == Head(queue[q])
         k == << m, c >>
         parsed == JSONparse(content[m].body)
     IN /\ queue' = [queue EXCEPT ![q] = Tail(@)]
        /\ IF parsed.ok
             THEN deliv' = [deliv EXCEPT ![k] =
                     [NoDeliv EXCEPT !.pc = "handler", !.q = q, !.handled = 1,
                                     !.settle = "unacked"]]
             ELSE deliv' = [deliv EXCEPT ![k] =
                     [NoDeliv EXCEPT !.pc = "done", !.q = q,
                                     !.ops = AfterFailure,
                                     !.settle = Settled(c, AfterFailure, "unacked")]]
  /\ ret' = NoRet
  /\ UNCHANGED << clientVars, conns, chans, content, events, subscribed, destroy >>
  /\ UNCHANGED appVars

NullMessage_Disconnects ==
  /\ isConnected' = FALSE
  /\ UNCHANGED << reconnectAttempts, connection, channel, tasks, deliv >>

\* rmq.service.ts:132-133: for a null message the callback passes over its
\* whole body
NullMessage == UNCHANGED << clientVars, deliv >>

\* the broker cancels the consumer of queue q on channel c, and the callback
\* is called with null
CancelConsumer(q, c) ==
  /\ ChannelOpen(c)
  /\ q \in chans[c].consumers
  /\ Fault
  /\ chans' = [chans EXCEPT ![c].consumers = @ \ {q}]
  /\ NullMessage
  /\ ret' = NoRet
  /\ UNCHANGED << conns, queue, content, subscribed, destroy >>
  /\ UNCHANGED appVars

\* the handler of message m delivered on channel c resolves or rejects
HandlerReturn(m, c, res) ==
  /\ deliv[<< m, c >>].pc = "handler"
  /\ LET ops == IF res = "ok" THEN AfterSuccess ELSE AfterFailure
     IN deliv' = [deliv EXCEPT ![<< m, c >>] =
                    [@ EXCEPT !.pc = "done", !.hres = res, !.ops = ops,
                              !.settle = Settled(c, ops, @)]]
  /\ ret' = NoRet
  /\ UNCHANGED << clientVars, conns, chans, queue, content, events, subscribed, destroy >>
  /\ UNCHANGED appVars

\* ------------------------------------------------------------------ shutdown
\* onModuleDestroy() has settled: it returned or it threw
DestroyDone(res) == [pc |-> "done", target |-> 0, res |-> res]

DestroyCaught_Rethrows == "threw"

\* rmq.service.ts:169-171: the catch block logs the error and ends
DestroyCaught == "returned"

\* onModuleDestroy() is called: it closes this.channel if there is one, else
\* this.connection if there is one
DestroyCall ==
  /\ destroy.pc = "none"
  /\ Event
  /\ IF channel # 0
       THEN /\ destroy' = [NoDestroy EXCEPT !.pc = "channelClose", !.target = channel]
            /\ UNCHANGED isConnected
       ELSE IF connection # 0
         THEN /\ destroy' = [NoDestroy EXCEPT !.pc = "connectionClose",
                                            !.target = connection]
              /\ UNCHANGED isConnected
         ELSE /\ destroy' = DestroyDone("returned")
              /\ isConnected' = FALSE
  /\ ret' = NoRet
  /\ UNCHANGED << reconnectAttempts, connection, channel, tasks, brokerVars,
                  subscribed >>
  /\ UNCHANGED appVars

\* channel.close() resolves: this.connection, read now, is closed next
DestroyChannelClosed ==
  /\ destroy.pc = "channelClose"
  /\ ChannelOpen(destroy.target)
  /\ ChannelGone(destroy.target)
  /\ IF connection # 0
       THEN /\ destroy' = [NoDestroy EXCEPT !.pc = "connectionClose",
                                            !.target = connection]
            /\ UNCHANGED isConnected
       ELSE /\ destroy' = DestroyDone("returned")
            /\ isConnected' = FALSE
  /\ ret' = NoRet
  /\ UNCHANGED << reconnectAttempts, connection, channel, tasks, conns,
                  content, events, subscribed >>
  /\ UNCHANGED appVars

\* connection.close() resolves: the connection has emitted 'close', so the
\* close listener has run, and isConnected is cleared
DestroyConnectionClosed ==
  /\ destroy.pc = "connectionClose"
  /\ conns[destroy.target] = "open"
  /\ \E t \in TaskIds : tasks[t].pc = "idle"
  /\ conns' = [conns EXCEPT ![destroy.target] = "closed"]
  /\ ChannelGone(destroy.target)
  /\ OnClose
  /\ destroy' = DestroyDone("returned")
  /\ ret' = NoRet
  /\ UNCHANGED << connection, channel, content, events, subscribed >>
  /\ UNCHANGED appVars

\* channel.close() or connection.close() rejects, because its target is
\* closed already or because the broker fails it: the catch block logs the
\* error and onModuleDestroy returns
DestroyReject ==
  /\ destroy.pc \in {"channelClose", "connectionClose"}
  /\ \/ /\ IF destroy.pc = "channelClose"
             THEN ~ChannelOpen(destroy.target)
             ELSE conns[destroy.target] # "open"
        /\ UNCHANGED events
     \/ Fault
  /\ destroy' = DestroyDone(DestroyCaught)
  /\ ret' = NoRet
  /\ UNCHANGED << clientVars, brokerVars, subscribed >>
  /\ UNCHANGED appVars

\* ----------------------------------------------------- decoded JSON values
\* What JSON.parse hands to a callback.  A value has a type t, the code
\* points s of a string, the integer n of a number (1/0 for true/false) and
\* the entries e of an object in their order.  Epoch values are counted in
\* days (86 400 000 ms), so that they stay within the integers of the checker.
Val(t, s, n) == [t |-> t, s |-> s, n |-> n, e |-> << >>]
Undefined == Val("undefined", << >>, 0)
Null == Val("null", << >>, 0)
Bool(b) == Val("boolean", << >>, IF b THEN 1 ELSE 0)
Num(n) == Val("number", << >>, n)
Str(s) == Val("string", s, 0)
EmptyArray == Val("array", << >>, 0)
Obj(e) == [t |-> "object", s |-> << >>, n |-> 0, e |-> e]
Entry(k, v) == [k |-> k, v |-> v]

\* the typeof operator
typeof(v) ==
  IF v.t \in {"object", "array", "null"} THEN "object" ELSE v.t

Falsy_NoEmptyString(v) ==
  \/ v.t \in {"undefined", "null"}
  \/ v.t = "boolean" /\ v.n = 0
  \/ v.t = "number" /\ v.n = 0

\* !v
Falsy(v) ==
  \/ v.t \in {"undefined", "null"}
  \/ v.t = "boolean" /\ v.n = 0
  \/ v.t = "number" /\ v.n = 0
  \/ v.t = "string" /\ v.s = << >>

\* data[key]: the value of the property, undefined when there is none
Get(v, key) ==
  IF v.t = "object" /\ \E i \in 1 .. Len(v.e) : v.e[i].k = key
    THEN v.e[CHOOSE i \in 1 .. Len(v.e) :
                /\ v.e[i].k = key
                /\ \A j \in i + 1 .. Len(v.e) : v.e[j].k # key].v
    ELSE Undefined

\* ------------------------------------------------------------------ Date
\* A Date is its time value in days, or NaN.  The time value of a Date is at
\* most 8.64e15 ms, which is 100 000 000 days.
MaxDateDays == 100000000
InvalidDate == [nan |-> TRUE, d |-> 0]
ValidDate(d) == [nan |-> FALSE, d |-> d]

IsDigit(c) == c \in 48 .. 57

\* days from 1970-01-01 to the first of January of year y
DaysOfYear(y) ==
  365 * (y - 1970) + ((y - 1969) \div 4) - ((y - 1901) \div 100)
    + ((y - 1601) \div 400)

\* new Date(string), for the strings of the model: a four-digit year is a
\* date, anything else is not
DateFromString(s) ==
  IF Len(s) = 4 /\ \A i \in 1 .. 4 : IsDigit(s[i])
    THEN ValidDate(DaysOfYear((s[1] - 48) * 1000 + (s[2] - 48) * 100
                              + (s[3] - 48) * 10 + (s[4] - 48)))
    ELSE InvalidDate

DateFromNumber_Unchecked(n) == ValidDate(n)

\* new Date(number)
DateFromNumber(n) ==
  IF n >= 0 - MaxDateDays /\ n <= MaxDateDays THEN ValidDate(n) ELSE InvalidDate

\* the text toISOString returns for a valid Date
IsoString(date) == Val("isodate", << >>, date.d)

\* -------------------------------------------------- JSON.stringify, length
\* bytes of one code point inside a JSON string, UTF-8 encoded; the quote and
\* the backslash are escaped
CharBytes(c) ==
  IF c \in {34, 92} THEN 2
  ELSE IF c < 128 THEN 1
  ELSE IF c < 2048 THEN 2
  ELSE 3

RECURSIVE StringBytes(_)
StringBytes(s) ==
  IF s = << >> THEN 0 ELSE CharBytes(Head(s)) + StringBytes(Tail(s))

RECURSIVE DecimalDigits(_)
DecimalDigits(n) ==
  IF n < 0 THEN 1 + DecimalDigits(0 - n)
  ELSE IF n < 10 THEN 1
  ELSE 1 + DecimalDigits(n \div 10)

\* a year of toISOString has four digits, or a sign and six
IsoBytes(d) ==
  IF d >= DaysOfYear(0) /\ d < DaysOfYear(10000) THEN 26 ELSE 29

\* Buffer.byteLength(JSON.stringify(v), 'utf8'); a property whose value is
\* undefined is left out
RECURSIVE StringifyBytes(_)
RECURSIVE EntriesBytes(_, _)
EntriesBytes(e, first) ==
  IF e = << >> THEN 0
  ELSE IF Head(e).v.t = "undefined" THEN EntriesBytes(Tail(e), first)
  ELSE (IF first THEN 0 ELSE 1) + Len(Head(e).k) + 3
         + StringifyBytes(Head(e).v) + EntriesBytes(Tail(e), FALSE)
StringifyBytes(v) ==
  IF v.t = "null" THEN 4
  ELSE IF v.t = "boolean" THEN (IF v.n = 1 THEN 4 ELSE 5)
  ELSE IF v.t = "number" THEN DecimalDigits(v.n)
  ELSE IF v.t = "string" THEN 2 + StringBytes(v.s)
  ELSE IF v.t = "isodate" THEN IsoBytes(v.n)
  ELSE IF v.t = "array" THEN 2
  ELSE 2 + EntriesBytes(v.e, TRUE)

\* ------------------------------------------------------ payloads ingested
\* the values a property of a consumed payload takes in the model; code
\* points 100 49 are "d1", 233 is e-acute, 50 48 50 52 is "2024", 120 is "x"
DeviceIdValues == { Undefined, Str(<< >>), Str(<< 100, 49 >>), Str(<< 233 >>),
                    Num(7) }
TimeValues == { Undefined, Str(<< 50, 48, 50, 52 >>), Str(<< 120 >>),
                Num(19723), Num(0), Num(MaxDateDays + 1), Bool(TRUE) }
DataLengthValues == { Undefined, Num(0), Num(5), Str(<< 57 >>) }

\* an object as JSON.parse builds it: a property is there or it is not
Present(entry) == entry.v.t # "undefined"
ObjectOf(entries) == Obj(SelectSeq(entries, Present))

\* what a payload with the usual deviceId and time carries besides them: a
\* dataVolume, both sizes, or acquisition parameters of the right and of the
\* wrong type; code points 65 80 are "AP", 57 is "9"
OptionalEntries ==
  { << Entry("dataVolume", Num(0)) >>,
    << Entry("dataVolume", Str(<< 57 >>)) >>,
    << Entry("dataLength", Num(5)), Entry("dataVolume", Num(7)) >>,
    << Entry("kV", Str(<< 57 >>)), Entry("mA", Bool(TRUE)),
       Entry("exposureTime", Null), Entry("projectionType", Num(3)) >>,
    << Entry("kV", Num(100)), Entry("mA", Num(250)),
       Entry("exposureTime", Num(120)),
       Entry("projectionType", Str(<< 65, 80 >>)) >> }

\* the non-objects, the objects in which at least one of the three
\* properties is the usual one ("d1", "2024", no dataLength), and the usual
\* object with optional properties
IngestPayloads ==
  { Null, Num(1), Str(<< 100, 49 >>), Bool(FALSE), EmptyArray }
  \cup { ObjectOf(<< Entry("deviceId", x[1]), Entry("time", x[2]),
                     Entry("dataLength", x[3]) >>) :
           x \in { y \in DeviceIdValues \X TimeValues \X DataLengthValues :
                     \/ y[1] = Str(<< 100, 49 >>)
                     \/ y[2] = Str(<< 50, 48, 50, 52 >>)
                     \/ y[3] = Undefined } }
  \cup { ObjectOf(<< Entry("deviceId", Str(<< 100, 49 >>)),
                     Entry("time", Str(<< 50, 48, 50, 52 >>)) >> \o e) :
           e \in OptionalEntries }

\* --------------------------------------------------- ingestion (XrayConsumer)
NoDto == [deviceId |-> Undefined, time |-> Undefined, dataLength |-> Undefined,
          dataVolume |-> Undefined, kV |-> Undefined, mA |-> Undefined,
          exposureTime |-> Undefined, projectionType |-> Undefined]

Thrown(msg) == [ok |-> FALSE, error |-> msg, dto |-> NoDto]

IfType_Keep(v, t, otherwise) == v

\* main.ts:140-149: typeof x === t ? x : otherwise
IfType(v, t, otherwise) == IF typeof(v) = t THEN v ELSE otherwise

\* main.ts:122-135: the Date the time property is read as; JSON.parse never
\* yields a Date instance
ParsedTime(time) ==
  IF typeof(time) = "string"
    THEN IF DateFromString(time.s).nan
           THEN [ok |-> FALSE,
                 error |-> "Invalid time format: unable to parse timestamp",
                 date |-> InvalidDate]
           ELSE [ok |-> TRUE, error |-> "", date |-> DateFromString(time.s)]
  ELSE IF typeof(time) = "number"
    THEN [ok |-> TRUE, error |-> "", date |-> DateFromNumber(time.n)]
  ELSE [ok |-> FALSE,
        error |-> "Invalid time format: expected Date, string, or number",
        date |-> InvalidDate]

\* main.ts:107-151; toISOString throws a RangeError on an invalid Date
parseXrayData(rawData) ==
  IF Falsy(rawData) \/ typeof(rawData) # "object"
    THEN Thrown("Invalid data format: expected object")
  ELSE IF Falsy(Get(rawData, "deviceId"))
            \/ typeof(Get(rawData, "deviceId")) # "string"
    THEN Thrown("Invalid deviceId: expected non-empty string")
  ELSE IF Falsy(Get(rawData, "time"))
    THEN Thrown("Invalid time: timestamp is required")
  ELSE IF ~ParsedTime(Get(rawData, "time")).ok
    THEN Thrown(ParsedTime(Get(rawData, "time")).error)
  ELSE IF ParsedTime(Get(rawData, "time")).date.nan
    THEN Thrown("RangeError: Invalid time value")
  ELSE [ok |-> TRUE, error |-> "",
        dto |-> [deviceId |-> Get(rawData, "deviceId"),
                 time |-> IsoString(ParsedTime(Get(rawData, "time")).date),
                 dataLength |-> IfType(Get(rawData, "dataLength"), "number", Num(0)),
                 dataVolume |-> IfType(Get(rawData, "dataVolume"), "number", Num(0)),
                 kV |-> IfType(Get(rawData, "kV"), "number", Undefined),
                 mA |-> IfType(Get(rawData, "mA"), "number", Undefined),
                 exposureTime |->
                   IfType(Get(rawData, "exposureTime"), "number", Undefined),
                 projectionType |->
                   IfType(Get(rawData, "projectionType"), "string", Undefined)]]

calculateDataLength_Zero(rawData) == 0

\* main.ts:153-161; JSON.stringify does not throw on a value that JSON.parse
\* produced
calculateDataLength(rawData) == StringifyBytes(rawData)

\* main.ts:92-94
WithDataLength(xrayData, payload) ==
  IF Falsy(xrayData.dataLength)
    THEN [xrayData EXCEPT !.dataLength = Num(calculateDataLength(payload))]
    ELSE xrayData

\* the properties of a CreateXrayDto in the order parseXrayData writes them
DtoEntries(dto) ==
  << Entry("deviceId", dto.deviceId), Entry("time", dto.time),
     Entry("dataLength", dto.dataLength), Entry("dataVolume", dto.dataVolume),
     Entry("kV", dto.kV), Entry("mA", dto.mA),
     Entry("exposureTime", dto.exposureTime),
     Entry("projectionType", dto.projectionType) >>

\* SignalService.calculateDataLength (signal.service.ts, part_001:84-86)
SignalDataLength(payload) == StringifyBytes(Obj(DtoEntries(payload)))

SignalDataVolume_Same(payload) == [num |-> SignalDataLength(payload), den |-> 1]

\* SignalService.calculateDataVolume (part_001:88-90): the length times 1.5,
\* as a fraction
SignalDataVolume(payload) == [num |-> 3 * SignalDataLength(payload), den |-> 2]

\* SignalService.processRawSignal (part_001:60-82); the time of the dto is the
\* text of a valid Date, which new Date reads back
processRawSignal(payload) ==
  IF Falsy(payload.deviceId)
    THEN [ok |-> FALSE, error |-> "Invalid x-ray payload: missing deviceId",
          doc |-> NoDto]
    ELSE [ok |-> TRUE, error |-> "",
          doc |-> [payload EXCEPT
                     !.dataLength = Num(SignalDataLength(payload)),
                     !.dataVolume = SignalDataVolume(payload)]]

\* the record of one message the handler has finished with
Ingestion(payload, error, handed, dto, saved, hres, ops) ==
  [payload |-> payload, error |-> error, handed |-> handed, dto |-> dto,
   saved |-> saved, hres |-> hres, ops |-> ops]

\* rmq.service.ts:135-140 around the handler: the calls made once the
\* callback has resolved ("ok") or rejected ("fail")
Outcome(hres) == IF hres = "ok" THEN AfterSuccess ELSE AfterFailure

XrayCaught_Rethrows == "fail"

\* main.ts:101-103: the catch block of the handler logs the error and the
\* handler completes
XrayCaught == "ok"

\* the broker delivers a message whose content decodes to payload p to the
\* consumer that XrayConsumer registered: the handler validates p and either
\* fails, or calls processAndSaveSignal and awaits the save
XrayDeliver(p) ==
  /\ xray.pc = "idle"
  /\ Len(ingested) < MaxIngest
  /\ LET parsed == parseXrayData(p)
         xrayData == WithDataLength(parsed.dto, p)
         processed == processRawSignal(xrayData)
     IN IF ~parsed.ok
          THEN /\ ingested' = Append(ingested,
                     Ingestion(p, parsed.error, FALSE, NoDto, FALSE, XrayCaught,
                               Outcome(XrayCaught)))
               /\ UNCHANGED xray
        ELSE IF ~processed.ok
          THEN /\ ingested' = Append(ingested,
                     Ingestion(p, processed.error, TRUE, xrayData, FALSE,
                               XrayCaught, Outcome(XrayCaught)))
               /\ UNCHANGED xray
        ELSE /\ xray' = [pc |-> "save", payload |-> p, dto |-> xrayData,
                         doc |-> processed.doc]
             /\ UNCHANGED ingested
  /\ UNCHANGED << store, rmqVars, producerVars >>

\* save() resolves: the document is stored, processAndSaveSignal returns it
\* and the handler completes
SaveResolve ==
  /\ xray.pc = "save"
  /\ store' = Append(store, xray.doc)
  /\ ingested' = Append(ingested,
        Ingestion(xray.payload, "", TRUE, xray.dto, TRUE, "ok", Outcome("ok")))
  /\ xray' = NoXray
  /\ UNCHANGED << rmqVars, producerVars >>

\* save() rejects: processAndSaveSignal logs the error and throws it again
\* (part_001:54-57), and the handler catches it
SaveReject ==
  /\ xray.pc = "save"
  /\ ingested' = Append(ingested,
        Ingestion(xray.payload, "SaveFailed", TRUE, xray.dto, FALSE, XrayCaught,
                  Outcome(XrayCaught)))
  /\ xray' = NoXray
  /\ UNCHANGED << store, rmqVars, producerVars >>

\* the client is connected and XrayConsumer.onApplicationBootstrap has
\* subscribed to 'xray_queue' (main.ts:82-83)
IngestInit ==
  /\ isConnected = TRUE
  /\ reconnectAttempts = 0
  /\ connection = 1
  /\ channel = 1
  /\ tasks = [t \in TaskIds |-> IdleTask]
  /\ conns = [c \in ConnIds |-> IF c = 1 THEN "open" ELSE "none"]
  /\ chans = [c \in ConnIds |->
                IF c = 1 THEN [state |-> "open", prefetch |-> PrefetchCount,
                               asserted |-> QueueNames,
                               consumers |-> {"xray_queue"}]
                ELSE NoChan]
  /\ events = 0
  /\ queue = [q \in QueueNames |-> << >>]
  /\ content = << >>
  /\ deliv = [k \in MsgIds \X ConnIds |-> NoDeliv]
  /\ subscribed = {"xray_queue"}
  /\ ret = "ok"
  /\ destroy = NoDestroy
  /\ xray = NoXray
  /\ ingested = << >>
  /\ store = << >>
  /\ batch = NoBatch
  /\ sample = NoSample

IngestNext ==
  \/ \E p \in IngestPayloads : XrayDeliver(p)
  \/ SaveResolve
  \/ SaveReject

IngestSpec == IngestInit /\ [][IngestNext]_vars

\* ------------------------------------------------- producer (ProducerService)
\* the draws of Math.random() taken in the model: 0, one half and the
\* largest fraction
RandomDraws == { 0, RandomSteps \div 2, RandomSteps - 1 }

\* Math.floor(Math.random() * range) for the draw k / RandomSteps
RandomBelow(k, range) == (k * range) \div RandomSteps

\* the day new Date() falls on
SampleClock == { 19723 }

\* the device ids asked for: "d1" and the empty string
SampleDeviceIds == { Str(<< 100, 49 >>), Str(<< >>) }

\* the override records: none, a kV outside its range, a deviceId and a
\* dataLength of 0, a kV that is explicitly undefined, and a projectionType
\* "LAT" next to a property the sample does not have
SampleOverrides ==
  { << >>,
    << Entry("kV", Num(200)) >>,
    << Entry("deviceId", Str(<< 120 >>)), Entry("dataLength", Num(0)) >>,
    << Entry("kV", Undefined) >>,
    << Entry("projectionType", Str(<< 76, 65, 84 >>)),
       Entry("note", Str(<< 120 >>)) >> }

HasKey(entries, key) == \E i \in 1 .. Len(entries) : entries[i].k = key
ValueOf(entries, key) ==
  entries[CHOOSE i \in 1 .. Len(entries) : entries[i].k = key].v

Spread_BaseWins(base, over) == base

\* { ...base, ...over }: a property of over replaces the one of base where
\* it stands, and the properties only over has follow
Spread(base, over) ==
  [i \in 1 .. Len(base) |->
     IF HasKey(over, base[i].k)
       THEN Entry(base[i].k, ValueOf(over, base[i].k))
       ELSE base[i]]
  \o SelectSeq(over, LAMBDA e : ~HasKey(base, e.k))

\* producer.module.ts:104-124; r holds the nine draws of Math.random() in the
\* order of the calls; latitude and longitude are counted in millionths of a
\* degree and speed in thousandths
generateSample(deviceId, overrides, r, now) ==
  LET base ==
        << Entry("deviceId", deviceId),
           Entry("time", IsoString(ValidDate(now))),
           Entry("dataLength", Num(1024 + RandomBelow(r[1], 4096))),
           Entry("dataVolume", Num(2048 + RandomBelow(r[2], 8192))),
           Entry("kV", Num(80 + RandomBelow(r[3], 40))),
           Entry("mA", Num(100 + RandomBelow(r[4], 300))),
           Entry("exposureTime", Num(50 + RandomBelow(r[5], 150))),
           Entry("projectionType",
                 IF 2 * r[6] > RandomSteps
                   THEN Str(<< 65, 80 >>) ELSE Str(<< 80, 65 >>)),
           Entry("latitude",
                 Num(51339764 + RandomBelow(r[7], 1000) - 500)),
           Entry("longitude",
                 Num(12339224 + RandomBelow(r[8], 1000) - 500)),
           Entry("speed", Num(500 + RandomBelow(r[9], 3000))) >>
  IN Obj(Spread(base, overrides))

\* generateSample(deviceId, overrides) is called (preview, sendSample)
GenerateSample(deviceId, overrides, r, now) ==
  /\ sample.pc = "none"
  /\ sample' = [pc |-> "done", deviceId |-> deviceId, overrides |-> overrides,
                payload |-> generateSample(deviceId, overrides, r, now)]
  /\ UNCHANGED << rmqVars, ingestVars, batch >>

\* one call of generateSample, with every device id, override record and
\* draw of the model
SampleNext ==
  /\ sample.pc = "none"
  /\ \E d \in SampleDeviceIds, o \in SampleOverrides, now \in SampleClock,
        r \in [1 .. 9 -> RandomDraws] :
       GenerateSample(d, o, r, now)

SampleSpec == Init /\ [][SampleNext]_vars

\* the counts sendBatch is called with
BatchCounts == 0 .. MaxEvents

BatchContinues_OffByOne(b) == b.i + 1 < b.count

\* producer.module.ts:133: i < count
BatchContinues(b) == b.i < b.count

BatchThrown_Swallowed(b, error) == [b EXCEPT !.pc = "wait"]

\* the error sendToQueue throws leaves sendSample and sendBatch, neither of
\* which catches it (producer.module.ts:126-139): the promise of sendBatch
\* rejects with it
BatchThrown(b, error) == [b EXCEPT !.pc = "failed", !.error = error]

\* one pass through the body of the loop (producer.module.ts:134-136):
\* sendSample publishes a generated sample, whose content is checked with
\* generateSample; an error of sendToQueue rejects sendBatch, otherwise the
\* 100 ms timer is awaited
BatchIteration(b) ==
  /\ sendToQueue("xray_queue", "sample")
  /\ batch' = IF ret' = "ok"
                THEN [b EXCEPT !.pc = "wait", !.published = @ + 1]
                ELSE BatchThrown(b, ret')

\* sendBatch(deviceId, n) is called and runs up to its first await
SendBatch(n) ==
  /\ batch.pc = "idle"
  /\ LET b == [NoBatch EXCEPT !.count = n]
     IN IF BatchContinues(b)
          THEN BatchIteration(b)
          ELSE /\ batch' = [b EXCEPT !.pc = "done"]
               /\ UNCHANGED rmqVars
  /\ UNCHANGED << ingestVars, sample >>

\* the 100 ms timer of sendBatch fires: i++ and the next pass, or the end
BatchTimer ==
  /\ batch.pc = "wait"
  /\ LET b == [batch EXCEPT !.i = @ + 1]
     IN IF BatchContinues(b)
          THEN BatchIteration(b)
          ELSE /\ batch' = [b EXCEPT !.pc = "done"]
               /\ UNCHANGED rmqVars
  /\ UNCHANGED << ingestVars, sample >>


\* ------------------------------------------------------------ specification
TaskStep(t) ==
  \/ TimerFire(t)
  \/ ConnectResolve(t)
  \/ ConnectReject(t)
  \/ CreateChannelResolve(t)
  \/ PrefetchResolve(t)
  \/ AssertResolve(t)
  \/ StepReject(t)

Next ==
  \/ \E t \in TaskIds : TaskStep(t)
  \/ \E c \in ConnIds : ConnError(c)
  \/ \E c \in ConnIds : ConnClose(c)
  \/ \E q \in UsedQueues, d \in Payloads : SendToQueue(q, d)
  \/ \E q \in UsedQueues : Consume(q)
  \/ \E q \in UsedQueues, b \in ForeignBytes : ForeignPublish(q, b)
  \/ \E q \in QueueNames, c \in ConnIds : Deliver(q, c)
  \/ \E q \in QueueNames, c \in ConnIds : CancelConsumer(q, c)
  \/ \E m \in MsgIds, c \in ConnIds, res \in {"ok", "fail"} : HandlerReturn(m, c, res)
  \/ DestroyCall
  \/ DestroyChannelClosed
  \/ DestroyConnectionClosed
  \/ DestroyReject

Spec == Init /\ [][Next]_vars

\* Timers fire and pending promises settle: every activation of
\* connect()/handleReconnect() keeps taking steps.
FairSpec == Spec /\ \A t \in TaskIds : WF_vars(TaskStep(t))

\* ------------------------------------------------------- repeated failures
\* the broker has refused the first n connects: n failures are counted, no
\* connection was ever handed out, and the activation that onModuleInit
\* started waits for the timer of the n-th failure
BackoffInit ==
  /\ isConnected = FALSE
  /\ reconnectAttempts \in 0 .. MaxAttempts
  /\ connection = 0
  /\ channel = 0
  /\ tasks = [t \in TaskIds |->
                IF t # 1 THEN IdleTask
                ELSE IF reconnectAttempts = 0
                  THEN [IdleTask EXCEPT !.pc = "connect"]
                  ELSE [IdleTask EXCEPT !.pc = "backoff",
                                        !.delay = BackoffDelay(reconnectAttempts)]]
  /\ conns = [c \in ConnIds |-> "none"]
  /\ chans = [c \in ConnIds |-> NoChan]
  /\ events = 0
  /\ queue = [q \in QueueNames |-> << >>]
  /\ content = << >>
  /\ deliv = [k \in MsgIds \X ConnIds |-> NoDeliv]
  /\ subscribed = {}
  /\ ret = NoRet
  /\ destroy = NoDestroy
  /\ xray = NoXray
  /\ ingested = << >>
  /\ store = << >>
  /\ batch = NoBatch
  /\ sample = NoSample

\* the connect sequence and the events of the connections, without callers
BackoffNext ==
  \/ \E t \in TaskIds : TaskStep(t)
  \/ \E c \in ConnIds : ConnError(c)
  \/ \E c \in ConnIds : ConnClose(c)

BackoffSpec == BackoffInit /\ [][BackoffNext]_vars

\* the producer service: the client's connect sequence, the events of its
\* connections, and one call of sendBatch
ProducerNext ==
  \/ \E t \in TaskIds : TaskStep(t)
  \/ \E c \in ConnIds : ConnError(c)
  \/ \E c \in ConnIds : ConnClose(c)
  \/ \E n \in BatchCounts : SendBatch(n)
  \/ BatchTimer

ProducerSpec == Init /\ [][ProducerNext]_vars

\* ------------------------------------------------------------------ claims
Deliveries == { k \in MsgIds \X ConnIds : deliv[k].pc # "none" }
Malformed(m) == ~JSONparse(content[m].body).ok
Calls(k, op) == { i \in 1 .. Len(deliv[k].ops) : deliv[k].ops[i].op = op }
TaskPending(t) == tasks[t].pc # "idle"

\* C1: a public call (sendToQueue or consume) made while isConnected is false
\* returns the not-connected error and changes nothing at the broker: no
\* message published or queued, no consumer registered.
C1_NotConnectedFailsFast ==
  [][(~isConnected /\ ret' # NoRet) =>
       (ret' = "NotConnected"
        /\ UNCHANGED << clientVars, brokerVars, subscribed >>)]_vars

\* a call was refused while a backoff wait is pending
C1_Witness ==
  ret = "NotConnected" /\ \E t \in TaskIds : tasks[t].pc = "backoff"

\* C2: a delivered message whose bytes are not well-formed JSON gets exactly
\* one call, nack with requeue = false, and its handler is never invoked.
C2_MalformedRejected ==
  \A k \in Deliveries :
    Malformed(k[1]) =>
      /\ deliv[k].handled = 0
      /\ deliv[k].pc = "done"
      /\ Len(deliv[k].ops) = 1
      /\ deliv[k].ops[1].op = "nack"
      /\ ~deliv[k].ops[1].requeue

\* a malformed message was delivered and rejected at the broker
C2_Witness ==
  \E k \in Deliveries : Malformed(k[1]) /\ deliv[k].settle = "nacked"

\* C3: when the handler of a well-formed message rejects, the client calls
\* nack with requeue = false and never calls ack for that delivery.
C3_HandlerFailureRejected ==
  \A k \in Deliveries :
    deliv[k].hres = "fail" =>
      /\ Calls(k, "ack") = {}
      /\ Calls(k, "nack") # {}
      /\ \A i \in Calls(k, "nack") : ~deliv[k].ops[i].requeue

\* a handler failed and its message was rejected at the broker
C3_Witness ==
  \E k \in Deliveries :
    deliv[k].hres = "fail" /\ deliv[k].handled = 1 /\ deliv[k].settle = "nacked"

\* C4: ack is called for a delivery only once its handler has completed
\* successfully, and the first call after a successful completion is ack.
C4_AckAfterSuccess ==
  \A k \in Deliveries :
    /\ Calls(k, "ack") # {} => deliv[k].hres = "ok"
    /\ deliv[k].pc = "handler" => deliv[k].ops = << >>
    /\ deliv[k].hres = "ok" => deliv[k].ops # << >> /\ deliv[k].ops[1].op = "ack"

\* a handler completed and its message was acknowledged at the broker
C4_Witness ==
  \E k \in Deliveries : deliv[k].hres = "ok" /\ deliv[k].settle = "acked"

\* C5: the client makes exactly one call, ack or nack, for every delivered
\* message: never both, never one of them twice.
C5_ExactlyOneOutcome ==
  \A k \in Deliveries :
    /\ Cardinality(Calls(k, "ack")) + Cardinality(Calls(k, "nack")) <= 1
    /\ deliv[k].pc = "done" => Len(deliv[k].ops) = 1

\* the broker has taken an ack or a nack for message m
MsgSettled(m) ==
  \E c \in ConnIds : deliv[<< m, c >>].settle \in {"acked", "nacked"}

\* message m is back in its queue and a consumer is there to take it
Redeliverable(m) ==
  \E q \in QueueNames, c \in ConnIds :
    /\ \E i \in 1 .. Len(queue[q]) : queue[q][i] = m
    /\ ChannelOpen(c) /\ q \in chans[c].consumers

\* C6: a delivered message whose handler has terminated has a definite
\* outcome at the broker, or is back in its queue with a consumer to take
\* it, whenever the client is connected and no reconnection is under way.
C6_DefiniteOutcome ==
  \A m \in MsgIds :
    ( /\ \E c \in ConnIds : deliv[<< m, c >>].pc = "done"
      /\ \A c \in ConnIds : deliv[<< m, c >>].pc # "handler"
      /\ isConnected /\ ChannelOpen(channel)
      /\ \A t \in TaskIds : ~TaskPending(t)
      /\ destroy.pc = "none" )
    => MsgSettled(m) \/ Redeliverable(m)

\* C7: while the client is connected, every queue consume() subscribed to has
\* its consumer on the channel in use, also after a reconnection.
C7_SubscriptionsRearmed ==
  ( /\ isConnected /\ ChannelOpen(channel)
    /\ \A t \in TaskIds : ~TaskPending(t)
    /\ destroy.pc = "none" )
  => \A q \in subscribed : q \in chans[channel].consumers

\* the connection the client holds is closed
LostConnection == connection # 0 /\ conns[connection] = "closed"

\* C8: a 'close' event of the connection in use while connected makes the
\* client disconnected, counts one attempt and starts one backoff wait; a
\* client whose connection is closed is eventually connected again.
C8_CloseReconnects ==
  /\ [][\A c \in ConnIds :
          (isConnected /\ connection = c /\ ConnClose(c)) =>
            /\ ~isConnected'
            /\ reconnectAttempts' = reconnectAttempts + 1
            /\ \E t \in TaskIds :
                 /\ ~TaskPending(t)
                 /\ tasks'[t].pc = "backoff"
                 /\ tasks'[t].delay = 2000
                 /\ \A u \in TaskIds \ {t} : tasks'[u] = tasks[u]]_vars
  /\ (LostConnection ~> isConnected)

\* connected again on a new connection and channel, after the connection on
\* which the client was connected and had subscribed was lost
C8_Witness ==
  /\ isConnected /\ reconnectAttempts = 0
  /\ connection # 0 /\ conns[connection] = "open" /\ ChannelOpen(channel)
  /\ subscribed # {} /\ chans[channel].consumers = {}
  /\ \E c \in ConnIds : conns[c] = "closed"
  /\ \A c \in ConnIds \ {connection} : conns[c] # "open"
  /\ destroy.pc = "none"

C10_RetriesForever ==
  /\ [][\A t \in TaskIds :
          (ConnectReject(t) \/ StepReject(t)) =>
            /\ tasks'[t].pc = "backoff"
            /\ reconnectAttempts' = reconnectAttempts + 1]_vars
  /\ (reconnectAttempts > 0 ~> isConnected)

\* a third attempt is under way after two consecutive failures
C10_Witness ==
  /\ reconnectAttempts = 2 /\ ~isConnected
  /\ \E t \in TaskIds : tasks[t].pc = "connect"
  /\ \A c \in ConnIds : conns[c] = "none"

\* ----------------------------------------------------- claims on ingestion
\* the ingestion records of the run
Ingested == { ingested[i] : i \in 1 .. Len(ingested) }

\* the payload is not an object, or its deviceId is absent, empty or not a
\* string
BadDeviceId(p) ==
  \/ p.t # "object"
  \/ ~\E i \in 1 .. Len(p.e) :
        p.e[i].k = "deviceId" /\ p.e[i].v.t = "string" /\ p.e[i].v.s # << >>

\* the payload's time is absent, neither a string nor a number, an unparsable
\* string, or a number no Date can hold
BadTime(p) ==
  \/ p.t # "object"
  \/ ~\E i \in 1 .. Len(p.e) :
        /\ p.e[i].k = "time"
        /\ \/ p.e[i].v.t = "string" /\ ~DateFromString(p.e[i].v.s).nan
           \/ /\ p.e[i].v.t = "number"
              /\ p.e[i].v.n >= 0 - MaxDateDays /\ p.e[i].v.n <= MaxDateDays

NackNoRequeue(op) == op.op = "nack" /\ ~op.requeue

\* C11: a payload that is not an object, or whose deviceId is absent, empty
\* or not a string, fails validation in the handler, and processAndSaveSignal
\* is never invoked for it.
C11_BadDeviceIdNeverPersisted ==
  /\ \A r \in Ingested :
       BadDeviceId(r.payload) => r.error # "" /\ ~r.handed /\ ~r.saved
  /\ xray.pc = "save" => ~BadDeviceId(xray.payload)

\* payloads without deviceId, with an empty one and with a number for one
\* have been through the handler
C11_Witness ==
  /\ Len(ingested) = 2
  /\ ingested[1].payload.t = "object" /\ Get(ingested[1].payload, "deviceId") = Undefined
  /\ ~BadTime(ingested[1].payload)
  /\ ingested[1].error = "Invalid deviceId: expected non-empty string"
  /\ Get(ingested[2].payload, "deviceId") = Str(<< >>)
  /\ ~ingested[2].handed

\* C12: a message whose payload fails validation (deviceId or time) is
\* negatively acknowledged without requeue and is not acked.
C12_InvalidPayloadNacked ==
  \A r \in Ingested :
    BadDeviceId(r.payload) \/ BadTime(r.payload) =>
      /\ \E i \in 1 .. Len(r.ops) : NackNoRequeue(r.ops[i])
      /\ \A i \in 1 .. Len(r.ops) : r.ops[i].op # "ack"

\* C13: when the save fails for a valid payload, the handler rejects and the
\* message is negatively acknowledged without requeue, not acked.
C13_SaveFailureNacked ==
  \A r \in Ingested :
    r.handed /\ ~r.saved =>
      /\ r.hres = "fail"
      /\ \E i \in 1 .. Len(r.ops) : NackNoRequeue(r.ops[i])
      /\ \A i \in 1 .. Len(r.ops) : r.ops[i].op # "ack"

\* ----------------------------------------- claims on connection and shutdown
\* task t waits for its backoff timer or for a step of its connect sequence
\* whose connection or channel is alive
Reconnecting(t) ==
  \/ tasks[t].pc \in {"backoff", "connect"}
  \/ tasks[t].pc = "createChannel" /\ conns[tasks[t].conn] = "open"
  \/ tasks[t].pc \in {"prefetch", "assert"} /\ ChannelOpen(tasks[t].target)

\* C14: while a connect sequence is in progress or a backoff wait is pending,
\* the client is not connected, so no publish succeeds meanwhile.
C14_NotConnectedWhileConnecting ==
  (\E t \in TaskIds : Reconnecting(t)) => ~isConnected

\* C15: once onModuleDestroy has been called no connect attempt is started:
\* no backoff timer fires into a connect and no backoff wait begins.
C15_NoConnectAfterShutdown ==
  [][destroy.pc # "none" =>
       \A t \in TaskIds :
         tasks'[t].pc \in {"backoff", "connect"} => tasks'[t].pc = tasks[t].pc]_vars

\* C16: onModuleDestroy closes the channel before the connection, closes
\* nothing when there is neither, and always returns: a close that fails is
\* swallowed.
C16_ShutdownOrder ==
  /\ [](destroy.pc = "done" => destroy.res = "returned")
  /\ [][/\ (destroy.pc = "none" /\ destroy'.pc # "none" /\ channel # 0) =>
             destroy'.pc = "channelClose" /\ destroy'.target = channel
        /\ (destroy'.pc = "connectionClose" /\ destroy.pc # "connectionClose") =>
             \/ /\ destroy.pc = "channelClose"
                /\ chans[destroy.target].state = "open"
                /\ chans'[destroy.target].state = "closed"
             \/ destroy.pc = "none" /\ channel = 0
        /\ (destroy.pc = "none" /\ destroy'.pc # "none"
              /\ channel = 0 /\ connection = 0) =>
             destroy'.pc = "done" /\ UNCHANGED brokerVars]_vars

\* the shutdown, the only event of the run, has closed the channel and then
\* the connection and has returned
C16_Witness ==
  /\ destroy.pc = "done" /\ destroy.res = "returned"
  /\ events = 1
  /\ channel # 0 /\ chans[channel].state = "closed"
  /\ connection # 0 /\ conns[connection] = "closed"

\* C17: a publish made while connected either puts exactly one message, the
\* JSON text of the payload with the persistent flag, at the tail of the named
\* queue, or fails with the error of the send and publishes nothing.
C17_PublishOnce ==
  [][\A q \in UsedQueues, d \in Payloads :
       (isConnected /\ SendToQueue(q, d)) =>
         \/ /\ ret' = "ok"
            /\ Len(content') = Len(content) + 1
            /\ SubSeq(content', 1, Len(content)) = content
            /\ content'[Len(content')] =
                 [body |-> << "{", "}" >>, persistent |-> TRUE]
            /\ queue' = [queue EXCEPT ![q] = Append(@, Len(content'))]
         \/ /\ ret' = "SendFailed"
            /\ UNCHANGED << content, queue >>]_vars

\* a publish has succeeded and a later one, made while connected on a channel
\* that the shutdown has closed, has failed
C17_Witness ==
  /\ ret = "SendFailed"
  /\ isConnected
  /\ Len(content) = 1 /\ content[1].persistent

Stored == { store[i] : i \in 1 .. Len(store) }

\* every payload and record that was passed to processAndSaveSignal
Handed ==
  { [payload |-> r.payload, dto |-> r.dto] : r \in { x \in Ingested : x.handed } }
  \cup (IF xray.pc = "save"
          THEN { [payload |-> xray.payload, dto |-> xray.dto] } ELSE {})

\* C19: every stored document has a non-empty string deviceId and a
\* well-formed time, and a payload whose deviceId or time is not well-formed
\* fails in the handler and is never stored.
C19_StoredWellFormed ==
  /\ \A doc \in Stored :
       /\ doc.deviceId.t = "string" /\ doc.deviceId.s # << >>
       /\ doc.time.t = "isodate"
       /\ doc.time.n >= 0 - MaxDateDays /\ doc.time.n <= MaxDateDays
  /\ \A r \in Ingested :
       BadDeviceId(r.payload) \/ BadTime(r.payload) => ~r.saved /\ r.error # ""
  /\ Len(store) = Cardinality({ i \in 1 .. Len(ingested) : ingested[i].saved })
  /\ xray.pc = "save" => ~BadDeviceId(xray.payload) /\ ~BadTime(xray.payload)

\* one payload was stored, and one with a good deviceId and a time beyond the
\* range of a Date was not
C19_Witness ==
  /\ Len(store) = 1
  /\ \E r \in Ingested :
       /\ ~BadDeviceId(r.payload)
       /\ Get(r.payload, "time") = Num(MaxDateDays + 1)
       /\ ~r.saved

\* C20: for a valid payload without dataLength the record handed to
\* processAndSaveSignal carries the byte length of the payload's JSON text,
\* which is positive and the same each time the payload is ingested.
C20_DerivedDataLength ==
  /\ \A h \in Handed :
       Get(h.payload, "dataLength") = Undefined =>
         /\ h.dto.dataLength = Num(StringifyBytes(h.payload))
         /\ h.dto.dataLength.n > 0
  /\ \A g, h \in Handed :
       g.payload = h.payload => g.dto.dataLength = h.dto.dataLength

\* {"deviceId":"d1","time":"2024"}, 31 bytes, was ingested twice
C20_Witness ==
  /\ Len(ingested) = 2
  /\ \A i \in 1 .. 2 :
       /\ ingested[i].payload =
            Obj(<< Entry("deviceId", Str(<< 100, 49 >>)),
                   Entry("time", Str(<< 50, 48, 50, 52 >>)) >>)
       /\ ingested[i].handed
       /\ ingested[i].dto.dataLength = Num(31)

\* the finished messages whose document was stored, in the order of the store
Saved == SelectSeq(ingested, LAMBDA r : r.saved)

\* the payload carries a non-negative number under the key
Supplied(p, key) == Get(p, key).t = "number" /\ Get(p, key).n >= 0

\* C21: a dataLength or dataVolume that the payload supplies as a
\* non-negative number, 0 included, is the value of the record handed to
\* processAndSaveSignal and of the stored document.
C21_SuppliedSizesKept ==
  /\ \A h \in Handed :
       /\ Supplied(h.payload, "dataLength") =>
            h.dto.dataLength = Get(h.payload, "dataLength")
       /\ Supplied(h.payload, "dataVolume") =>
            h.dto.dataVolume = Get(h.payload, "dataVolume")
  /\ \A i \in 1 .. Len(store) :
       /\ Supplied(Saved[i].payload, "dataLength") =>
            store[i].dataLength = Get(Saved[i].payload, "dataLength")
       /\ Supplied(Saved[i].payload, "dataVolume") =>
            store[i].dataVolume.num =
              store[i].dataVolume.den * Get(Saved[i].payload, "dataVolume").n

\* the payload has a usable deviceId and time and no number as dataVolume
NoVolume(p) ==
  /\ p.t = "object"
  /\ Get(p, "dataVolume").t # "number"

\* C22 as stated: for a valid payload without a numeric dataVolume the record
\* handed to processAndSaveSignal carries a derived, positive dataVolume.
C22_HandedVolumeDerived ==
  \A h \in Handed :
    NoVolume(h.payload) =>
      h.dto.dataVolume.t = "number" /\ h.dto.dataVolume.n > 0

\* C22: for a valid payload without a numeric dataVolume the record handed to
\* processAndSaveSignal carries dataVolume 0, and the document stored for it
\* carries one and a half times the byte length of the JSON text of the
\* handed record; every stored document carries a positive dataLength and a
\* positive dataVolume.
C22_VolumeDerivedOnStore ==
  /\ \A h \in Handed : NoVolume(h.payload) => h.dto.dataVolume = Num(0)
  /\ Len(Saved) = Len(store)
  /\ \A i \in 1 .. Len(store) :
       /\ store[i].dataLength.t = "number" /\ store[i].dataLength.n > 0
       /\ store[i].dataVolume.num > 0 /\ store[i].dataVolume.den > 0
       /\ NoVolume(Saved[i].payload) =>
            /\ 2 * store[i].dataVolume.num =
                 3 * store[i].dataVolume.den
                   * StringifyBytes(Obj(DtoEntries(Saved[i].dto)))
            /\ store[i].dataLength =
                 Num(StringifyBytes(Obj(DtoEntries(Saved[i].dto))))

\* {"deviceId":"d1","time":"2024","dataVolume":"9"} was stored: the handed
\* record had dataVolume 0 and the volume of the document is one and a half
\* times its length
C22_Witness ==
  \E i \in 1 .. Len(store) :
    /\ Get(Saved[i].payload, "dataVolume") = Str(<< 57 >>)
    /\ Saved[i].dto.dataVolume = Num(0)
    /\ store[i].dataLength.n > 0
    /\ 2 * store[i].dataVolume.num = 3 * store[i].dataVolume.den * store[i].dataLength.n

\* the acquisition parameters and the primitive type each must have
OptionalFields ==
  { << "kV", "number" >>, << "mA", "number" >>,
    << "exposureTime", "number" >>, << "projectionType", "string" >> }

\* the payload has the usual deviceId and time
UsualIdentity(p) ==
  /\ p.t = "object"
  /\ Get(p, "deviceId") = Str(<< 100, 49 >>)
  /\ Get(p, "time") = Str(<< 50, 48, 50, 52 >>)

\* what must become of an optional property of the payload
Passed(p, f) == IF Get(p, f[1]).t = f[2] THEN Get(p, f[1]) ELSE Undefined

\* C23: for a valid payload kV, mA and exposureTime reach processAndSaveSignal
\* and the store unchanged when they are numbers, and projectionType when it
\* is a string; a value of another type is left undefined, and the message
\* does not fail for it.
C23_OptionalFieldsSoft ==
  /\ \A h \in Handed :
       \A f \in OptionalFields : h.dto[f[1]] = Passed(h.payload, f)
  /\ \A i \in 1 .. Len(store) :
       \A f \in OptionalFields : store[i][f[1]] = Passed(Saved[i].payload, f)
  /\ \A r \in Ingested :
       UsualIdentity(r.payload) =>
         r.handed /\ r.error \in { "", "SaveFailed" }

\* a payload whose four parameters have the wrong type and one with all four
\* of the right type were both stored
C23_Witness ==
  /\ Len(store) = 2
  /\ \E i, j \in 1 .. 2 :
       /\ Get(Saved[i].payload, "kV") = Str(<< 57 >>)
       /\ Get(Saved[i].payload, "projectionType") = Num(3)
       /\ store[i].kV = Undefined /\ store[i].mA = Undefined
       /\ store[i].exposureTime = Undefined
       /\ store[i].projectionType = Undefined
       /\ store[j].kV = Num(100) /\ store[j].mA = Num(250)
       /\ store[j].exposureTime = Num(120)
       /\ store[j].projectionType = Str(<< 65, 80 >>)

\* C24: a time given as a parsable string or as any number, 0 included, is
\* accepted and handed on as an ISO text; an unparsable string fails
\* validation.
C24_TimeNormalized ==
  \A r \in Ingested :
    ~BadDeviceId(r.payload) =>
      /\ Get(r.payload, "time").t = "number" =>
           r.handed /\ r.dto.time.t = "isodate"
      /\ Get(r.payload, "time").t = "string" =>
           IF DateFromString(Get(r.payload, "time").s).nan
             THEN ~r.handed /\ r.error # ""
             ELSE r.handed /\ r.dto.time.t = "isodate"

\* C27: a payload that is ingested twice is stored once.
C27_Idempotent ==
  Len(store) = Cardinality({ r.payload : r \in { x \in Ingested : x.saved } })

\* the steps of connect() that await the broker
ConnectSteps == { "connect", "createChannel", "prefetch", "assert" }

\* C28: an activation of connect() only ends by completing the sequence,
\* with the client connected and the counter reset, or by counting the
\* failure and waiting for the backoff timer; it never ends with an error
\* for onModuleInit to pass on.
C28_InitNeverFails ==
  [][\A t \in TaskIds :
       tasks[t].pc \in ConnectSteps /\ tasks'[t].pc \notin ConnectSteps =>
         \/ /\ tasks'[t].pc = "idle"
            /\ tasks[t].pc = "assert"
            /\ isConnected' /\ reconnectAttempts' = 0
         \/ /\ tasks'[t].pc = "backoff"
            /\ ~isConnected'
            /\ reconnectAttempts' = reconnectAttempts + 1
            /\ tasks'[t].delay = BackoffDelay(reconnectAttempts')]_vars

\* amqp.connect was refused once and a later step of the sequence failed on
\* an open connection: two failures counted, the activation waits 4000 ms
C28_Witness ==
  /\ reconnectAttempts = 2
  /\ events = 2
  /\ \E t \in TaskIds : tasks[t].pc = "backoff" /\ tasks[t].delay = 4000
  /\ \E c \in ConnIds : conns[c] = "open"
  /\ \A c \in ConnIds : conns[c] # "closed"
  /\ destroy = NoDestroy

\* the delivery ended with the message dropped: its content did not parse, or
\* its handler failed
Dropped(k) ==
  /\ deliv[k].pc = "done"
  /\ deliv[k].handled = 0 \/ deliv[k].hres = "fail"

\* C29: after a message was dropped because it was malformed or its handler
\* failed, the consumer is still registered on the channel, as long as that
\* channel is open, and the dropped message does not hold back the next
\* delivery: the broker no longer counts it as unacknowledged.
C29_SubscriptionSurvivesDrop ==
  \A k \in Deliveries :
    Dropped(k) /\ ChannelOpen(k[2]) =>
      /\ deliv[k].q \in chans[k[2]].consumers
      /\ deliv[k].settle # "unacked"

\* the delays of the first attempts, as the text lists them
DelayTable(attempt) ==
  IF attempt = 1 THEN 2000
  ELSE IF attempt = 2 THEN 4000
  ELSE IF attempt = 3 THEN 8000
  ELSE IF attempt = 4 THEN 16000
  ELSE 30000

\* C30: every close event and every failure of the connect sequence
\* increments the counter first and then waits min(30000, 2^attempt * 1000)
\* ms for the incremented value, which is 2000, 4000, 8000, 16000 and then
\* 30000; the counter only grows by one or is reset to 0 on success, so the
\* wait never exceeds 30000 ms and never decreases until the reset.
C30_BackoffSequence ==
  /\ [][reconnectAttempts' # reconnectAttempts =>
          \/ reconnectAttempts' = 0 /\ isConnected'
          \/ /\ reconnectAttempts' = reconnectAttempts + 1
             /\ \E t \in TaskIds :
                  /\ tasks[t].pc # "backoff"
                  /\ tasks'[t].pc = "backoff"
                  /\ tasks'[t].delay = DelayTable(reconnectAttempts')
                  /\ tasks'[t].delay =
                       Min(30000, Pow2(reconnectAttempts') * 1000)
                  /\ reconnectAttempts > 0 =>
                       tasks'[t].delay >= DelayTable(reconnectAttempts)]_vars
  /\ [][\A t \in TaskIds :
          tasks'[t].pc = "backoff" /\ tasks[t].pc # "backoff" =>
            reconnectAttempts' = reconnectAttempts + 1]_vars
  /\ [](\A t \in TaskIds : tasks[t].pc = "backoff" => tasks[t].delay <= 30000)

\* after four failures the connection closed while a connect sequence was
\* using it: the close listener waits 30000 ms for the fifth failure and the
\* sequence's own retry waits 30000 ms for the sixth
C30_Witness ==
  /\ reconnectAttempts = 6
  /\ \E t, u \in TaskIds :
       /\ t # u
       /\ tasks[t].pc = "backoff" /\ tasks[t].delay = 30000
       /\ tasks[u].pc = "backoff" /\ tasks[u].delay = 30000
  /\ \E c \in ConnIds : conns[c] = "closed"

\* the sample has a property under the key and its value is in lo .. hi
InRange(payload, key, lo, hi) ==
  /\ HasKey(payload.e, key)
  /\ Get(payload, key).t = "number"
  /\ Get(payload, key).n >= lo /\ Get(payload, key).n <= hi

\* C25: in the record generateSample returns, every property of the
\* overrides has the override's value, and every other property is in its
\* range: deviceId is the argument, kV in 80..120, mA in 100..400,
\* exposureTime in 50..200, dataLength in 1024..5120, dataVolume in
\* 2048..10240, projectionType "AP" or "PA".
C25_SampleFields ==
  sample.pc = "done" =>
    /\ \A i \in 1 .. Len(sample.overrides) :
         /\ HasKey(sample.payload.e, sample.overrides[i].k)
         /\ Get(sample.payload, sample.overrides[i].k) = sample.overrides[i].v
    /\ ~HasKey(sample.overrides, "deviceId") =>
         HasKey(sample.payload.e, "deviceId")
           /\ Get(sample.payload, "deviceId") = sample.deviceId
    /\ ~HasKey(sample.overrides, "kV") => InRange(sample.payload, "kV", 80, 120)
    /\ ~HasKey(sample.overrides, "mA") => InRange(sample.payload, "mA", 100, 400)
    /\ ~HasKey(sample.overrides, "exposureTime") =>
         InRange(sample.payload, "exposureTime", 50, 200)
    /\ ~HasKey(sample.overrides, "dataLength") =>
         InRange(sample.payload, "dataLength", 1024, 5120)
    /\ ~HasKey(sample.overrides, "dataVolume") =>
         InRange(sample.payload, "dataVolume", 2048, 10240)
    /\ ~HasKey(sample.overrides, "projectionType") =>
         Get(sample.payload, "projectionType")
           \in { Str(<< 65, 80 >>), Str(<< 80, 65 >>) }

\* a sample for "d1" with the kV overridden by 200, generated with the
\* largest draws: kV is 200 and dataLength is 5119
C25_Witness ==
  /\ sample.pc = "done"
  /\ sample.deviceId = Str(<< 100, 49 >>)
  /\ sample.overrides = << Entry("kV", Num(200)) >>
  /\ Get(sample.payload, "kV") = Num(200)
  /\ Get(sample.payload, "dataLength") = Num(5119)
  /\ Get(sample.payload, "dataVolume") = Num(10239)
  /\ Get(sample.payload, "projectionType") = Str(<< 65, 80 >>)

\* the client is Connected: its flag is set and its channel is open
Connected == isConnected /\ ChannelOpen(channel)

\* C26: sendBatch(deviceId, n) publishes once per pass as long as the client
\* is Connected, and a batch that has ended normally has published exactly n
\* messages, all to 'xray_queue'; with n = 0 it ends at once with nothing
\* published and no handler invoked.
C26_BatchPublishesCount ==
  /\ [](batch.pc = "done" =>
          /\ batch.published = batch.count
          /\ batch.i = batch.count)
  /\ [](/\ Len(content) = batch.published
        /\ \A m \in 1 .. Len(content) :
             content[m].body = JSONstringify("sample")
        /\ Len(queue["xray_queue"]) = batch.published
        /\ queue["xray_data_queue"] = << >>)
  /\ [](batch.count = 0 => Len(content) = 0 /\ Deliveries = {})
  /\ [][batch.pc = "idle" /\ batch'.pc # "idle" /\ batch'.count = 0 =>
          batch'.pc = "done"]_vars
  /\ [][batch' # batch /\ Connected =>
          /\ batch'.pc # "failed"
          /\ batch'.pc = "wait" =>
               /\ batch'.published = batch.published + 1
               /\ Len(content') = Len(content) + 1]_vars

\* a batch of two has ended: two samples are in 'xray_queue'
C26_Witness ==
  /\ batch.pc = "done"
  /\ batch.count = 2
  /\ batch.published = 2
  /\ Len(queue["xray_queue"]) = 2

\* C31: a connect sequence that succeeds resets the counter, so the counter
\* is 0 whenever isConnected is true, and the failure counted next, after a
\* success, is the first one again and waits 2000 ms.
C31_CounterResetOnSuccess ==
  /\ [](isConnected => reconnectAttempts = 0)
  /\ [][~isConnected /\ isConnected' => reconnectAttempts' = 0]_vars
  /\ [][isConnected /\ reconnectAttempts' # reconnectAttempts =>
          /\ reconnectAttempts' = 1
          /\ \E t \in TaskIds :
               /\ tasks[t].pc # "backoff"
               /\ tasks'[t].pc = "backoff"
               /\ tasks'[t].delay = BackoffDelay(1)
               /\ tasks'[t].delay = 2000]_vars

\* the client is connected with the counter at 0 although a connection was
\* lost before, an event that had raised the counter
C31_Witness ==
  /\ isConnected
  /\ reconnectAttempts = 0
  /\ ChannelOpen(channel)
  /\ \E c \in ConnIds : conns[c] = "closed"
  /\ \A t \in TaskIds : tasks[t].pc = "idle"

\* C32: whenever isConnected is true, this.channel is a channel on which
\* prefetch(1) was set and both queues were asserted.
C32_ConnectedChannelReady ==
  isConnected /\ ChannelOpen(channel) =>
    /\ chans[channel].prefetch = PrefetchCount
    /\ chans[channel].asserted = QueueNames

\* C35: a 'close' or 'error' event of a connection other than this.connection,
\* while the client is connected on this.connection, leaves the flag, the
\* counter and the activations as they are.
C35_StaleEventsIgnored ==
  [][\A c \in ConnIds :
       /\ isConnected
       /\ c # connection
       /\ connection # 0 /\ conns[connection] = "open"
       /\ channel = connection /\ ChannelOpen(channel)
       /\ ConnClose(c) \/ ConnError(c)
       => /\ isConnected'
          /\ reconnectAttempts' = reconnectAttempts
          /\ tasks' = tasks]_vars

\* C36: at most one activation of connect()/handleReconnect() is waiting for
\* its timer or running its connect sequence.
C36_OneReconnection ==
  Cardinality({ t \in TaskIds : TaskPending(t) }) <= 1

\* C37: every ack and nack for a message is called on the channel that
\* delivered the message.
C37_AckOnDeliveringChannel ==
  \A k \in Deliveries :
    \A i \in 1 .. Len(deliv[k].ops) : deliv[k].ops[i].on = k[2]

\* C38: when channel.close() fails in onModuleDestroy, connection.close() is
\* still called, and isConnected is false once onModuleDestroy has returned.
C38_ShutdownBestEffort ==
  /\ [][destroy.pc # "done" /\ destroy'.pc = "done" => ~isConnected']_vars
  /\ [][destroy.pc = "channelClose" /\ destroy'.pc = "done" =>
          connection = 0]_vars

\* C33: the handler XrayConsumer registers completes normally for every
\* message: for a payload that is no object or has no usable deviceId, and
\* for a save that fails, the error is recorded and the handler still
\* resolves; processAndSaveSignal is called at most once for a message and
\* nothing is stored unless it was called.
C33_HandlerNeverRejects ==
  /\ \A r \in Ingested :
       /\ r.hres = "ok"
       /\ r.ops # << >> /\ r.ops[1].op = "ack"
       /\ r.saved => r.handed /\ r.error = ""
       /\ BadDeviceId(r.payload) => ~r.handed /\ r.error # ""
       /\ r.handed /\ ~r.saved => r.error # ""
  /\ Len(store) <= Cardinality({ i \in 1 .. Len(ingested) : ingested[i].handed })

\* the handler completed for null, dropped before persistence, and for a
\* valid payload whose save failed
C33_Witness ==
  /\ \E r \in Ingested :
       r.payload = Null /\ ~r.handed /\ r.hres = "ok" /\ r.error # ""
  /\ \E r \in Ingested :
       r.handed /\ ~r.saved /\ r.error = "SaveFailed" /\ r.hres = "ok"

\* C39: the first call of sendToQueue that throws ends sendBatch with that
\* error; the samples published before it stay at the broker, and nothing is
\* published for the batch afterwards.
C39_BatchStopsAtFailure ==
  /\ [][batch' # batch /\ ret' # "ok" /\ batch'.pc # "done" =>
          /\ batch'.pc = "failed"
          /\ batch'.error = ret'
          /\ batch'.error \in { "NotConnected", "SendFailed" }
          /\ batch'.published = batch.published
          /\ content' = content]_vars
  /\ [][batch.pc = "failed" => batch' = batch /\ content' = content]_vars
  /\ [](batch.pc = "failed" =>
          /\ batch.published < batch.count
          /\ batch.published = batch.i
          /\ Len(content) = batch.published)

\* a batch of two failed at its second sample, the client having lost its
\* connection during the wait: one sample stays published
C39_Witness ==
  /\ batch.pc = "failed"
  /\ batch.count = 2
  /\ batch.published = 1
  /\ batch.error = "NotConnected"
  /\ Len(content) = 1

\* C34: when the broker cancels a consumer and the callback is called with
\* null, no handler is started, no ack or nack is called, and the flag, the
\* counter, the connection, the channel and the activations are unchanged.
C34_NullMessageIgnored ==
  [][\A q \in QueueNames, c \in ConnIds :
       /\ ChannelOpen(c)
       /\ chans'[c].state = "open"
       /\ q \in chans[c].consumers
       /\ q \notin chans'[c].consumers
       => /\ isConnected' = isConnected
          /\ reconnectAttempts' = reconnectAttempts
          /\ connection' = connection
          /\ channel' = channel
          /\ tasks' = tasks
          /\ deliv' = deliv]_vars

\* the consumer on 'xray_queue' was cancelled on the only connection there
\* has been: the client is still connected on it
C34_Witness ==
  /\ isConnected
  /\ ChannelOpen(channel)
  /\ "xray_queue" \in subscribed
  /\ "xray_queue" \notin chans[channel].consumers
  /\ Cardinality({ c \in ConnIds : conns[c] # "none" }) = 1
  /\ \A t \in TaskIds : tasks[t].pc = "idle"
  /\ destroy = NoDestroy
====
